---- MODULE Spec2Model ----
(***************************************************************************)
(* LicenseView (Zerto licensing utilization report): the metric            *)
(* derivations of zerto/data.py, the configuration loader of               *)
(* zerto/config.py, the authenticators of zerto/auth.py, the connectivity  *)
(* probe of zerto/api.py and the report renderer of zerto/output.py.       *)
(*                                                                         *)
(* Numbers.  A utilization percentage is a Python float with two decimal   *)
(* places; it is carried here as an integer number of hundredths of a      *)
(* percent (82.4 % is 8240).  An alert threshold is a fraction (0.95); it   *)
(* is carried as the value of `threshold * 100` in the same unit (9500).   *)
(* Strings that the code only compares are TLA+ strings; texts that the    *)
(* code scans are sequences of symbols.                                    *)
(***************************************************************************)
EXTENDS Integers, Sequences, FiniteSets, TLC

VARIABLES
    pc,       \* "ready" before the call, "done" after it returned or raised
    call,     \* the operation called and its arguments
    ret,      \* what the call returned or raised
    config,   \* ConfigLoader.config (self.config)
    http,     \* the HTTP requests issued so far, in order
    authObj,  \* the Auth object the factory created: its class and self.token
    files,    \* the files of the output directory: name -> content
    clock     \* the time datetime.now() reads

vars == <<pc, call, ret, config, http, authObj, files, clock>>

\* what the metric functions and the configuration loader never touch
world == <<http, authObj, files, clock>>

(***************************************************************************)
(* Bounds of the explored inputs                                           *)
(***************************************************************************)
MaxVms == 40            \* VM counts 0..MaxVms for calculate_utilization_pct
MinVms == 3             \* negative VM counts down to -MinVms
MaxUtil == 10600        \* utilization inputs up to 106.00 %
MinUtil == 1500         \* utilization inputs down to -15.00 %
MaxDeriveVms == 3       \* VM counts 0..MaxDeriveVms for derive_metrics
MaxHistLen == 4         \* history lists of up to MaxHistLen samples
MaxSample == 2          \* history samples 0..MaxSample

(***************************************************************************)
(* Python helpers                                                          *)
(***************************************************************************)
Min(a, b) == IF a <= b THEN a ELSE b

\* dict.get(key, default)
Get(d, k, default) == IF k \in DOMAIN d THEN d[k] ELSE default

\* round(n/d, 0) for d > 0 as Python's round() does it: to the nearest
\* integer, a tie to the even neighbour.  n/d is here the value in hundredths,
\* so this is round(x, 2) of data.py line 21.
RoundHalfEven(n, d) ==
    LET q == n \div d
        r == n % d
    IN  IF 2 * r < d THEN q
        ELSE IF 2 * r > d THEN q + 1
        ELSE IF q % 2 = 0 THEN q ELSE q + 1

\* int(n/d) for d > 0: truncation toward zero
TruncDiv(n, d) == IF n >= 0 THEN n \div d ELSE -((-n) \div d)

(***************************************************************************)
(* zerto/data.py                                                           *)
(***************************************************************************)
MutCalculateUtilizationPctZeroOnly(protected_vms, entitled_vms) ==
    IF entitled_vms = 0 THEN 0
    ELSE IF entitled_vms > 0 THEN RoundHalfEven(protected_vms * 10000, entitled_vms)
    ELSE RoundHalfEven(-(protected_vms * 10000), -entitled_vms)

MutCalculateUtilizationPctTruncate(protected_vms, entitled_vms) ==
    IF entitled_vms <= 0 THEN 0
    ELSE TruncDiv(protected_vms * 10000, entitled_vms)

\* calculate_utilization_pct, in hundredths of a percent
CalculateUtilizationPct(protected_vms, entitled_vms) ==
    IF entitled_vms <= 0 THEN 0
    ELSE RoundHalfEven(protected_vms * 10000, entitled_vms)

\* the expiry step function of calculate_risk_score
ExpiryScore(days_to_expiry) ==
    IF days_to_expiry <= 30 THEN 50
    ELSE IF days_to_expiry <= 90 THEN 30
    ELSE IF days_to_expiry <= 365 THEN 15
    ELSE 5

MutCalculateRiskScoreNoClamp(utilization_pct, days_to_expiry) ==
    TruncDiv(utilization_pct + 200 * ExpiryScore(days_to_expiry), 200)

MutCalculateRiskScoreCeil(utilization_pct, days_to_expiry) ==
    LET n == Min(utilization_pct, 10000) + 200 * ExpiryScore(days_to_expiry)
    IN  Min(-((-n) \div 200), 100)

\* calculate_risk_score: util_score = min(u/100, 1.0) * 50 is
\* min(hundredths, 10000) / 200; score = int(util_score + expiry_score)
CalculateRiskScore(utilization_pct, days_to_expiry) ==
    LET util200 == Min(utilization_pct, 10000)
        score   == TruncDiv(util200 + 200 * ExpiryScore(days_to_expiry), 200)
    IN  Min(score, 100)

\* the default thresholds, 0.80 and 0.95, times 100
DefaultWarn == 8000
DefaultCrit == 9500

\* alert_thresholds = None is [none |-> TRUE]; a dict is [none |-> FALSE, d |-> dict]
NoneArg == [none |-> TRUE]
Some(d) == [none |-> FALSE, d |-> d]
EmptyDict == [k \in {} |-> 0]

Alert(severity, message, recommendation) ==
    [severity |-> severity, message |-> message, recommendation |-> recommendation]

\* The message heads; the number interpolated after them is left out.
UtilizationMessages == {"Utilization critical", "Utilization high"}
ExpiryMessages == {"License expiring soon", "License expiration reminder"}

MutUtilizationAlertsWarnFirst(utilization_pct, alert_thresholds) ==
    LET th   == IF alert_thresholds.none
                THEN [k \in {"utilization_warn", "utilization_crit"} |->
                         IF k = "utilization_warn" THEN DefaultWarn ELSE DefaultCrit]
                ELSE alert_thresholds.d
        crit == Get(th, "utilization_crit", DefaultCrit)
        warn == Get(th, "utilization_warn", DefaultWarn)
    IN  IF utilization_pct >= warn
        THEN <<Alert("warning", "Utilization high",
                     "Audit and right-size your protected infrastructure")>>
        ELSE IF utilization_pct >= crit
        THEN <<Alert("critical", "Utilization critical",
                     "Immediate action required: Review licensing tier and add capacity")>>
        ELSE <<>>

\* generate_alerts, lines 64-84: the thresholds and the utilization alert
UtilizationAlerts(utilization_pct, alert_thresholds) ==
    LET th   == IF alert_thresholds.none
                THEN [k \in {"utilization_warn", "utilization_crit"} |->
                         IF k = "utilization_warn" THEN DefaultWarn ELSE DefaultCrit]
                ELSE alert_thresholds.d
        crit == Get(th, "utilization_crit", DefaultCrit)
        warn == Get(th, "utilization_warn", DefaultWarn)
    IN  IF utilization_pct >= crit
        THEN <<Alert("critical", "Utilization critical",
                     "Immediate action required: Review licensing tier and add capacity")>>
        ELSE IF utilization_pct >= warn
        THEN <<Alert("warning", "Utilization high",
                     "Audit and right-size your protected infrastructure")>>
        ELSE <<>>

MutExpiryAlertsStrict(days_to_expiry) ==
    IF days_to_expiry < 30
    THEN <<Alert("warning", "License expiring soon", "License renewal action required")>>
    ELSE IF days_to_expiry < 90
    THEN <<Alert("info", "License expiration reminder", "Plan license renewal")>>
    ELSE <<>>

\* generate_alerts, lines 86-98: the expiry alert
ExpiryAlerts(days_to_expiry) ==
    IF days_to_expiry <= 30
    THEN <<Alert("warning", "License expiring soon", "License renewal action required")>>
    ELSE IF days_to_expiry <= 90
    THEN <<Alert("info", "License expiration reminder", "Plan license renewal")>>
    ELSE <<>>

\* generate_alerts: the alerts list, appended to in this order
GenerateAlerts(utilization_pct, days_to_expiry, alert_thresholds) ==
    UtilizationAlerts(utilization_pct, alert_thresholds) \o ExpiryAlerts(days_to_expiry)

(***************************************************************************)
(* The calendar behind datetime.now() + timedelta(days=90) and             *)
(* strftime("%Y-%m-%d").  A date is [y, m, d].                             *)
(***************************************************************************)
IsLeap(y) == (y % 4 = 0) /\ ((y % 100 # 0) \/ (y % 400 = 0))

DaysInMonth(y, m) ==
    IF m = 2 THEN (IF IsLeap(y) THEN 29 ELSE 28)
    ELSE IF m \in {4, 6, 9, 11} THEN 30 ELSE 31

\* days before 1 January of year y, counted from 0001-01-01
DaysBeforeYear(y) ==
    LET p == y - 1 IN p * 365 + (p \div 4) - (p \div 100) + (p \div 400)

RECURSIVE DaysBeforeMonth(_, _)
DaysBeforeMonth(y, m) ==
    IF m = 1 THEN 0 ELSE DaysBeforeMonth(y, m - 1) + DaysInMonth(y, m - 1)

\* date.toordinal()
ToOrdinal(date) == DaysBeforeYear(date.y) + DaysBeforeMonth(date.y, date.m) + date.d

\* date.fromordinal(n)
FromOrdinal(n) ==
    LET y == CHOOSE yy \in (n \div 366)..(n \div 365 + 1) :
                 DaysBeforeYear(yy) < n /\ n <= DaysBeforeYear(yy + 1)
        k == n - DaysBeforeYear(y)
        m == CHOOSE mm \in 1..12 :
                 DaysBeforeMonth(y, mm) < k /\ k <= DaysBeforeMonth(y, mm) + DaysInMonth(y, mm)
    IN  [y |-> y, m |-> m, d |-> k - DaysBeforeMonth(y, m)]

\* date + timedelta(days=n)
AddDays(date, n) == FromOrdinal(ToOrdinal(date) + n)

DigitChar(n) == <<"0", "1", "2", "3", "4", "5", "6", "7", "8", "9">>[n + 1]

\* strftime("%Y-%m-%d"): ten characters, zero padded
Strftime(date) ==
    << DigitChar(date.y \div 1000), DigitChar((date.y \div 100) % 10),
       DigitChar((date.y \div 10) % 10), DigitChar(date.y % 10), "-",
       DigitChar(date.m \div 10), DigitChar(date.m % 10), "-",
       DigitChar(date.d \div 10), DigitChar(date.d % 10) >>

\* A returned string is [s |-> literal]; a formatted date is
\* [s |-> "date", text |-> characters].
Str(s) == [s |-> s]
DateStr(text) == [s |-> "date", text |-> text]

\* the days of the placeholder projection (timedelta(days=90))
ForecastDays == 90

MutForecastRunoutDateTwoSamples(history, entitled_vms, now) ==
    IF history.none \/ DOMAIN history.d = {} \/ "days_7" \notin DOMAIN history.d
       \/ Len(history.d["days_7"]) < 2
    THEN Str("N/A")
    ELSE LET trend == history.d["days_7"]
             delta == trend[Len(trend)] - trend[1]
         IN  IF delta = 0 THEN Str("Stable")
             ELSE IF delta < 0 THEN Str("Stable (decreasing)")
             ELSE DateStr(Strftime(AddDays(now, ForecastDays)))

\* forecast_runout_date; now is the date datetime.now() reads.
\* rate = delta / 7 is positive whenever the integer delta is, so the
\* `rate <= 0` return of line 137 is taken for no list of integers.
ForecastRunoutDate(history, entitled_vms, now) ==
    IF history.none \/ DOMAIN history.d = {} \/ "days_7" \notin DOMAIN history.d
       \/ Len(history.d["days_7"]) < 3
    THEN Str("N/A")
    ELSE LET trend == history.d["days_7"]
         IN  IF Len(trend) < 2 THEN Str("N/A")
             ELSE LET delta == trend[Len(trend)] - trend[1]
                  IN  IF delta = 0 THEN Str("Stable")
                      ELSE IF delta < 0 THEN Str("Stable (decreasing)")
                      ELSE IF delta <= 0 THEN Str("N/A")
                      ELSE DateStr(Strftime(AddDays(now, ForecastDays)))

\* derive_metrics; the timestamp is the day the clock shows
DeriveMetrics(entitled_vms, protected_vms, days_to_expiry, history, alert_thresholds, now) ==
    LET hist            == IF history.none THEN Some(EmptyDict) ELSE history
        utilization_pct == CalculateUtilizationPct(protected_vms, entitled_vms)
    IN  [ timestamp            |-> now,
          utilization_pct      |-> utilization_pct,
          risk_score           |-> CalculateRiskScore(utilization_pct, days_to_expiry),
          forecast_runout_date |-> ForecastRunoutDate(hist, entitled_vms, now),
          days_to_expiry       |-> days_to_expiry,
          alerts               |-> GenerateAlerts(utilization_pct, days_to_expiry,
                                                  alert_thresholds) ]

(***************************************************************************)
(* The metric functions called with inputs drawn from bounded sets         *)
(***************************************************************************)
VmRange == (-MinVms)..MaxVms
EntitledValues == VmRange \cup {500}
ProtectedValues == VmRange \cup {412}

\* days to expiry around every step of the code, and the spec's examples
DaysValues == {-1, 0, 25, 29, 30, 31, 89, 90, 91, 180, 200, 364, 365, 366, 400}

\* utilization inputs: around every whole point of the utilization score
UtilValues == {u \in (-MinUtil)..MaxUtil : u % 200 \in {0, 1, 100, 199}} \cup {8240}

\* thresholds whose product with 100 is exact in floating point
ThresholdValues == {5000, 8000, 9500, 10000}
ThresholdKeys == {"utilization_warn", "utilization_crit"}
ThresholdArgs ==
    {NoneArg} \cup {Some(d) : d \in UNION {[K -> ThresholdValues] : K \in SUBSET ThresholdKeys}}
AlertUtilValues == {0, 9600, 12000} \cup UNION {{t - 1, t, t + 1} : t \in ThresholdValues}

Todays == { [y |-> 2026, m |-> 11, d |-> 4],  [y |-> 2023, m |-> 12, d |-> 1],
            [y |-> 2024, m |-> 2,  d |-> 29], [y |-> 2024, m |-> 12, d |-> 31],
            [y |-> 2025, m |-> 1,  d |-> 1],  [y |-> 2099, m |-> 12, d |-> 15] }

SampleLists == UNION {[1..n -> 0..MaxSample] : n \in 0..MaxHistLen}
HistoryArgs ==
    {NoneArg, Some(EmptyDict)}
    \cup {Some([k \in {"days_7"} |-> s]) : s \in SampleLists}
    \cup {Some([k \in {"days_30"} |-> s]) : s \in {<<0, 1, 2>>}}
    \cup {Some([k \in {"days_7", "days_30"} |-> IF k = "days_7" THEN s ELSE <<0, 1, 2>>]) :
             s \in SampleLists}

DeriveVmValues == (-1)..MaxDeriveVms
DeriveHistoryArgs ==
    {NoneArg, Some(EmptyDict)}
    \cup {Some([k \in {"days_7"} |-> s]) : s \in {<<1, 2>>, <<0, 1, 2>>, <<2, 2, 2>>, <<2, 1, 0>>}}
DeriveThresholdArgs ==
    {NoneArg, Some(EmptyDict), Some([k \in {"utilization_warn"} |-> 5000])}

UtilizationCalls ==
    {[op |-> "calculate_utilization_pct", protected_vms |-> p, entitled_vms |-> e] :
        p \in ProtectedValues, e \in EntitledValues}
RiskCalls ==
    {[op |-> "calculate_risk_score", utilization_pct |-> u, days_to_expiry |-> d] :
        u \in UtilValues, d \in DaysValues}
AlertCalls ==
    {[op |-> "generate_alerts", utilization_pct |-> u, days_to_expiry |-> d,
      alert_thresholds |-> t] :
        u \in AlertUtilValues, d \in DaysValues, t \in ThresholdArgs}
ForecastCalls ==
    {[op |-> "forecast_runout_date", history |-> h, entitled_vms |-> e, now |-> n] :
        h \in HistoryArgs, e \in {0, 1, 500}, n \in Todays}
DeriveCalls ==
    {[op |-> "derive_metrics", entitled_vms |-> e, protected_vms |-> p,
      days_to_expiry |-> d, history |-> h, alert_thresholds |-> t, now |-> n] :
        e \in DeriveVmValues \cup {500}, p \in DeriveVmValues \cup {412}, d \in DaysValues,
        h \in DeriveHistoryArgs, t \in DeriveThresholdArgs,
        n \in {[y |-> 2026, m |-> 11, d |-> 4]}}

NoConfig == [t |-> "none"]      \* self.config = None
NoToken == [t |-> "none"]       \* self.token = None
NoAuth == [cls |-> "none"]      \* no Auth object yet

\* nothing requested, no Auth object, an empty output directory
InitWorld ==
    /\ http = <<>>
    /\ authObj = NoAuth
    /\ files = [name \in {} |-> 0]
    /\ clock = 0

InitMetrics ==
    /\ pc = "ready"
    /\ call \in UtilizationCalls \cup RiskCalls \cup AlertCalls \cup ForecastCalls \cup DeriveCalls
    /\ ret = "none"
    /\ config = NoConfig
    /\ InitWorld

CallCalculateUtilizationPct ==
    /\ pc = "ready" /\ call.op = "calculate_utilization_pct"
    /\ ret' = CalculateUtilizationPct(call.protected_vms, call.entitled_vms)
    /\ pc' = "done"
    /\ UNCHANGED <<call, config, world>>

CallCalculateRiskScore ==
    /\ pc = "ready" /\ call.op = "calculate_risk_score"
    /\ ret' = CalculateRiskScore(call.utilization_pct, call.days_to_expiry)
    /\ pc' = "done"
    /\ UNCHANGED <<call, config, world>>

CallGenerateAlerts ==
    /\ pc = "ready" /\ call.op = "generate_alerts"
    /\ ret' = GenerateAlerts(call.utilization_pct, call.days_to_expiry, call.alert_thresholds)
    /\ pc' = "done"
    /\ UNCHANGED <<call, config, world>>

CallForecastRunoutDate ==
    /\ pc = "ready" /\ call.op = "forecast_runout_date"
    /\ ret' = ForecastRunoutDate(call.history, call.entitled_vms, call.now)
    /\ pc' = "done"
    /\ UNCHANGED <<call, config, world>>

CallDeriveMetrics ==
    /\ pc = "ready" /\ call.op = "derive_metrics"
    /\ ret' = DeriveMetrics(call.entitled_vms, call.protected_vms, call.days_to_expiry,
                            call.history, call.alert_thresholds, call.now)
    /\ pc' = "done"
    /\ UNCHANGED <<call, config, world>>

NextMetrics ==
    \/ CallCalculateUtilizationPct
    \/ CallCalculateRiskScore
    \/ CallGenerateAlerts
    \/ CallForecastRunoutDate
    \/ CallDeriveMetrics

SpecMetrics == InitMetrics /\ [][NextMetrics]_vars

Returned(op) == pc = "done" /\ call.op = op

(***************************************************************************)
(* Claims about zerto/data.py, checked under SpecMetrics                   *)
(***************************************************************************)
Abs(n) == IF n >= 0 THEN n ELSE -n

\* C1: calculate_utilization_pct returns exactly 0.0 whenever entitled_vms
\* is zero or negative, whatever protected_vms is.
C1_ZeroWhenNotEntitled ==
    (Returned("calculate_utilization_pct") /\ call.entitled_vms <= 0) => ret = 0

C1_Witness ==
    /\ Returned("calculate_utilization_pct")
    /\ call.entitled_vms < 0 /\ call.protected_vms > 0 /\ ret = 0

\* C2: for entitled_vms > 0 the result is protected/entitled*100 rounded to
\* two decimals: in hundredths, the integer nearest to 10000*protected/entitled
\* (no further from it than half a hundredth); 412 of 500 gives 82.40.
C2_RoundedToHundredths ==
    (Returned("calculate_utilization_pct") /\ call.entitled_vms > 0) =>
        /\ 2 * Abs(call.entitled_vms * ret - 10000 * call.protected_vms) <= call.entitled_vms
        /\ (call.protected_vms = 412 /\ call.entitled_vms = 500) => ret = 8240

C2_Witness ==
    /\ Returned("calculate_utilization_pct")
    /\ call.protected_vms = 412 /\ call.entitled_vms = 500 /\ ret = 8240

\* the expiry component as the specification states it
ClaimedExpiryComponent(days) ==
    CASE days <= 30                -> 50
      [] days > 30 /\ days <= 90   -> 30
      [] days > 90 /\ days <= 365  -> 15
      [] OTHER                     -> 5

\* 200 times the sum min(utilization,100)/100*50 + expiry_component
ClaimedSum200(utilization_pct, days) ==
    Min(utilization_pct, 10000) + 200 * ClaimedExpiryComponent(days)

\* C3 as stated: for every utilization and every days_to_expiry the score is
\* the floor of the sum, clamped to at most 100.
C3_FloorForEveryInput ==
    Returned("calculate_risk_score") =>
        ret = Min(ClaimedSum200(call.utilization_pct, call.days_to_expiry) \div 200, 100)

\* C3 amended: the score is the sum truncated toward zero and clamped to at
\* most 100; that is the floor whenever the sum is not negative, in
\* particular for every utilization >= 0, and 82.4 % with 180 days gives 56.
C3_TruncatedSum ==
    Returned("calculate_risk_score") =>
        LET n == ClaimedSum200(call.utilization_pct, call.days_to_expiry)
        IN  /\ ret <= 100
            /\ ret < 100 =>
                  IF n >= 0 THEN 200 * ret <= n /\ n < 200 * (ret + 1)
                            ELSE 200 * (ret - 1) < n /\ n <= 200 * ret
            /\ ret = 100 => n >= 20000
            /\ call.utilization_pct >= 0 => ret = Min(n \div 200, 100)
            /\ (call.utilization_pct = 8240 /\ call.days_to_expiry = 180) => ret = 56

C3_Witness ==
    /\ Returned("calculate_risk_score")
    /\ ClaimedSum200(call.utilization_pct, call.days_to_expiry) < 0
    /\ ClaimedSum200(call.utilization_pct, call.days_to_expiry) % 200 # 0
    /\ ret = 0

\* C4: for non-negative utilization (also above 100 %) and non-negative
\* days_to_expiry the risk score is an integer in 0..100, and so is the
\* risk_score of every metrics record derive_metrics builds from
\* non-negative counts and days.
C4_RiskScoreInRange ==
    /\ (Returned("calculate_risk_score") /\ call.utilization_pct >= 0
            /\ call.days_to_expiry >= 0) => ret \in 0..100
    /\ (Returned("derive_metrics") /\ call.entitled_vms >= 0 /\ call.protected_vms >= 0
            /\ call.days_to_expiry >= 0) => ret.risk_score \in 0..100

C4_Witness ==
    /\ Returned("derive_metrics")
    /\ call.entitled_vms > 0 /\ call.protected_vms > 2 * call.entitled_vms
    /\ call.days_to_expiry \in 0..30
    /\ ret.utilization_pct > 20000 /\ ret.risk_score = 100

\* the thresholds the claim names: the supplied one, else the default
ClaimedThreshold(alert_thresholds, key, default) ==
    IF ~alert_thresholds.none /\ key \in DOMAIN alert_thresholds.d
    THEN alert_thresholds.d[key] ELSE default

IsUtilizationAlert(a) == a.message \in UtilizationMessages
IsExpiryAlert(a) == a.message \in ExpiryMessages

\* C5: at most one utilization alert: critical at or above the crit
\* threshold, else warning at or above the warn threshold, else none;
\* missing thresholds fall back to 95 % and 80 %; 96 % with the defaults
\* gives exactly one critical alert and no utilization warning.
C5_UtilizationAlert ==
    Returned("generate_alerts") =>
        LET crit == ClaimedThreshold(call.alert_thresholds, "utilization_crit", 9500)
            warn == ClaimedThreshold(call.alert_thresholds, "utilization_warn", 8000)
            ua   == SelectSeq(ret, IsUtilizationAlert)
            u    == call.utilization_pct
        IN  /\ Len(ua) <= 1
            /\ u >= crit => (Len(ua) = 1 /\ ua[1].severity = "critical")
            /\ (u < crit /\ u >= warn) => (Len(ua) = 1 /\ ua[1].severity = "warning")
            /\ (u < crit /\ u < warn) => Len(ua) = 0
            /\ (u = 9600 /\ call.alert_thresholds.none) =>
                  /\ Cardinality({i \in 1..Len(ret) : ret[i].severity = "critical"}) = 1
                  /\ \A i \in 1..Len(ret) :
                        IsUtilizationAlert(ret[i]) => ret[i].severity # "warning"

C5_Witness ==
    /\ Returned("generate_alerts")
    /\ call.utilization_pct = 9600 /\ call.alert_thresholds.none
    /\ Len(ret) >= 1 /\ ret[1].severity = "critical" /\ IsUtilizationAlert(ret[1])

\* C6: whatever the utilization, exactly one expiry alert of severity
\* warning when days_to_expiry <= 30, exactly one of severity info when
\* 30 < days_to_expiry <= 90, none above 90; the list holds the utilization
\* alert (if any) first and the expiry alert (if any) after it.
C6_ExpiryAlert ==
    Returned("generate_alerts") =>
        LET ea == SelectSeq(ret, IsExpiryAlert)
            ua == SelectSeq(ret, IsUtilizationAlert)
            d  == call.days_to_expiry
        IN  /\ d <= 30 => (Len(ea) = 1 /\ ea[1].severity = "warning")
            /\ (d > 30 /\ d <= 90) => (Len(ea) = 1 /\ ea[1].severity = "info")
            /\ d > 90 => Len(ea) = 0
            /\ ret = ua \o ea
            /\ (d = 25) => \E i \in 1..Len(ret) :
                              IsExpiryAlert(ret[i]) /\ ret[i].severity = "warning"
            /\ (d = 200) => \A i \in 1..Len(ret) : ~IsExpiryAlert(ret[i])

C6_Witness ==
    /\ Returned("generate_alerts")
    /\ call.days_to_expiry = 25 /\ Len(ret) = 2
    /\ IsUtilizationAlert(ret[1]) /\ IsExpiryAlert(ret[2]) /\ ret[2].severity = "warning"

\* the calendar walked month by month: n days after date
RECURSIVE DaysLater(_, _)
DaysLater(date, n) ==
    IF date.d + n <= DaysInMonth(date.y, date.m) THEN [date EXCEPT !.d = @ + n]
    ELSE LET rest == n - (DaysInMonth(date.y, date.m) - date.d + 1)
         IN  IF date.m < 12
             THEN DaysLater([y |-> date.y, m |-> date.m + 1, d |-> 1], rest)
             ELSE DaysLater([y |-> date.y + 1, m |-> 1, d |-> 1], rest)

DigitValue(c) == CHOOSE n \in 0..9 : DigitChar(n) = c

\* the date a "%Y-%m-%d" text reads as
ReadDate(text) ==
    [ y |-> 1000 * DigitValue(text[1]) + 100 * DigitValue(text[2])
            + 10 * DigitValue(text[3]) + DigitValue(text[4]),
      m |-> 10 * DigitValue(text[6]) + DigitValue(text[7]),
      d |-> 10 * DigitValue(text[9]) + DigitValue(text[10]) ]

\* the samples under key days_7, none when the key or the history is missing
SevenDaySamples(history) ==
    IF history.none THEN <<>>
    ELSE IF "days_7" \in DOMAIN history.d THEN history.d["days_7"] ELSE <<>>

\* C7: "N/A" with fewer than 3 samples under days_7 (also with the key
\* missing or the history empty); with 3 or more: "Stable" when last-first
\* is 0, "Stable (decreasing)" when it is negative, otherwise the date 90
\* days after the current date, whatever the delta and entitled_vms.
C7_Forecast ==
    Returned("forecast_runout_date") =>
        LET t == SevenDaySamples(call.history)
        IN  IF Len(t) < 3 THEN ret = Str("N/A")
            ELSE LET delta == t[Len(t)] - t[1]
                 IN  /\ delta = 0 => ret = Str("Stable")
                     /\ delta < 0 => ret = Str("Stable (decreasing)")
                     /\ delta > 0 =>
                           /\ ret.s = "date"
                           /\ Len(ret.text) = 10 /\ ret.text[5] = "-" /\ ret.text[8] = "-"
                           /\ ReadDate(ret.text) = DaysLater(call.now, 90)

C7_Witness ==
    /\ Returned("forecast_runout_date")
    /\ Len(SevenDaySamples(call.history)) >= 3
    /\ call.now = [y |-> 2023, m |-> 12, d |-> 1]
    /\ ret = DateStr(<<"2", "0", "2", "4", "-", "0", "2", "-", "2", "9">>)

(***************************************************************************)
(* zerto/config.py                                                         *)
(*                                                                         *)
(* A text is a sequence of symbols.  A symbol is "$", "{", "}" or a run of *)
(* other characters ("FOO", "10.x"): the pattern \$\{([^}]+)\} tells only  *)
(* the three characters from the rest.  The environment is a function from *)
(* the names that are set to their values, both texts.                     *)
(***************************************************************************)
MaxContentLen == 5      \* texts of up to MaxContentLen symbols

\* Where the match of \$\{([^}]+)\} that starts at position i ends, 0 when
\* the pattern does not match there: "${", one or more symbols other than
\* "}", then the first "}".
MatchEnd(content, i) ==
    IF /\ i + 3 <= Len(content)
       /\ content[i] = "$" /\ content[i + 1] = "{" /\ content[i + 2] # "}"
       /\ \E j \in (i + 3)..Len(content) : content[j] = "}"
    THEN CHOOSE j \in (i + 3)..Len(content) :
             /\ content[j] = "}"
             /\ \A k \in (i + 3)..(j - 1) : content[k] # "}"
    ELSE 0

MutReplaceVarEmptyWhenUnset(var_name, env) ==
    IF var_name \notin DOMAIN env THEN <<>> ELSE env[var_name]

\* replace_var: the value of a set variable, the token itself otherwise
ReplaceVar(var_name, env) ==
    IF var_name \notin DOMAIN env
    THEN <<"$", "{">> \o var_name \o <<"}">>
    ELSE env[var_name]

\* re.sub(pattern, replace_var, content) from position i on: matches are
\* taken leftmost first, do not overlap, and replacements are not rescanned
RECURSIVE SubFrom(_, _, _)
SubFrom(content, i, env) ==
    IF i > Len(content) THEN <<>>
    ELSE LET j == MatchEnd(content, i)
         IN  IF j # 0
             THEN ReplaceVar(SubSeq(content, i + 2, j - 1), env) \o SubFrom(content, j + 1, env)
             ELSE <<content[i]>> \o SubFrom(content, i + 1, env)

\* ConfigLoader._expand_env_vars
ExpandEnvVars(content, env) == SubFrom(content, 1, env)

(***************************************************************************)
(* The values yaml.safe_load returns, tagged by their Python type.  The    *)
(* keys of a mapping are TLA+ strings; a str is a text.                     *)
(***************************************************************************)
PyNone == [t |-> "none"]
PyBool(b) == [t |-> "bool", b |-> b]
PyInt(n) == [t |-> "int", n |-> n]
PyStr(s) == [t |-> "str", s |-> s]
PyList(items) == [t |-> "list", items |-> items]
PyDict(d) == [t |-> "dict", d |-> d]

\* bool(value)
Truthy(v) ==
    CASE v.t = "none" -> FALSE
      [] v.t = "bool" -> v.b
      [] v.t = "int"  -> v.n # 0
      [] v.t = "str"  -> v.s # <<>>
      [] v.t = "list" -> v.items # <<>>
      [] v.t = "dict" -> DOMAIN v.d # {}

\* `field in value`: a key of a mapping, an item of a list, a substring of a
\* str (a field name is one symbol of a text); other values are not iterable
Iterable(v) == v.t \in {"dict", "list", "str"}
Contains(v, field) ==
    CASE v.t = "dict" -> field \in DOMAIN v.d
      [] v.t = "list" -> \E i \in 1..Len(v.items) : v.items[i] = PyStr(<<field>>)
      [] v.t = "str"  -> \E i \in 1..Len(v.s) : v.s[i] = field

Raise(error, message) == [kind |-> "raise", error |-> error, message |-> message]
Return(value) == [kind |-> "return", value |-> value]
Passed == [kind |-> "passed"]

required_fields == <<"zvm_url", "auth", "verify_tls", "output_dir">>
MutAuthVersionsWith9x == {PyStr(<<"10.x">>), PyStr(<<"pre-10">>), PyStr(<<"9.x">>)}

AuthVersions == {PyStr(<<"10.x">>), PyStr(<<"pre-10">>)}

\* the loop over required_fields from field number i on: the first missing
\* field raises; `in` on a value that is not iterable raises TypeError
RECURSIVE CheckRequired(_, _)
CheckRequired(cfg, i) ==
    IF i > Len(required_fields) THEN Passed
    ELSE IF ~Iterable(cfg) THEN Raise("TypeError", "argument is not iterable")
    ELSE IF ~Contains(cfg, required_fields[i])
         THEN Raise("ValueError", "Missing required config field")
         ELSE CheckRequired(cfg, i + 1)

MutCheckAuthVersionSkipped(cfg) == Passed

\* lines 89-92: self.config.get("auth", {}).get("version") and its test;
\* .get on a value that is not a mapping raises AttributeError
CheckAuthVersion(cfg) ==
    IF cfg.t # "dict" THEN Raise("AttributeError", "object has no attribute 'get'")
    ELSE LET auth == Get(cfg.d, "auth", PyDict(EmptyDict))
         IN  IF auth.t # "dict" THEN Raise("AttributeError", "object has no attribute 'get'")
             ELSE IF Get(auth.d, "version", PyNone) \notin AuthVersions
                  THEN Raise("ValueError", "Invalid auth.version")
                  ELSE Passed

\* ConfigLoader._validate
Validate(cfg) ==
    IF ~Truthy(cfg) THEN Raise("ValueError", "Configuration is empty")
    ELSE IF CheckRequired(cfg, 1) # Passed THEN CheckRequired(cfg, 1)
    ELSE CheckAuthVersion(cfg)

(***************************************************************************)
(* A configuration file.  It is missing, or its text is not YAML, or its   *)
(* text is the YAML of a document `doc` whose scalars may hold ${NAME}     *)
(* tokens.  Keys and punctuation hold no "${", every token lies within one *)
(* scalar and the substituted values are plain scalars, so expanding the   *)
(* text and parsing it gives the document with every str expanded.         *)
(***************************************************************************)
MissingFile == [exists |-> FALSE]
UnparsableFile == [exists |-> TRUE, parses |-> FALSE]
YamlFile(doc) == [exists |-> TRUE, parses |-> TRUE, doc |-> doc]

RECURSIVE ExpandDoc(_, _)
ExpandDoc(v, env) ==
    CASE v.t = "str"  -> PyStr(ExpandEnvVars(v.s, env))
      [] v.t = "list" -> PyList([i \in 1..Len(v.items) |-> ExpandDoc(v.items[i], env)])
      [] v.t = "dict" -> PyDict([k \in DOMAIN v.d |-> ExpandDoc(v.d[k], env)])
      [] OTHER        -> v

\* ConfigLoader.load: what it returns or raises, and self.config afterwards
Load(file, env, self_config) ==
    IF ~file.exists
    THEN [ret |-> Raise("FileNotFoundError", "Config file not found"), config |-> self_config]
    ELSE IF ~file.parses
    THEN [ret |-> Raise("ValueError", "Failed to parse config"), config |-> self_config]
    ELSE LET parsed  == ExpandDoc(file.doc, env)
             outcome == Validate(parsed)
         IN  [ret    |-> IF outcome = Passed THEN Return(parsed) ELSE outcome,
              config |-> parsed]

(***************************************************************************)
(* The loader called with inputs drawn from bounded sets                   *)
(***************************************************************************)
Symbols == {"$", "{", "}", "FOO", "x"}
Texts == UNION {[1..n -> Symbols] : n \in 0..MaxContentLen}

EmptyEnv == [n \in {} |-> <<>>]
ExpandEnvs ==
    { EmptyEnv,
      [n \in {<<"FOO">>} |-> <<"bar">>],
      [n \in {<<"FOO">>} |-> <<>>],
      [n \in {<<"FOO">>, <<"x">>} |-> IF n = <<"FOO">> THEN <<"$", "{", "x", "}">> ELSE <<"bar">>] }

ExpandCalls ==
    {[op |-> "_expand_env_vars", content |-> c, env |-> e] : c \in Texts, e \in ExpandEnvs}

ConfigEnvs ==
    { EmptyEnv,
      [n \in {<<"ZVM_VERSION">>} |-> <<"10.x">>],
      [n \in {<<"ZVM_VERSION">>, <<"ZVM_URL">>} |->
          IF n = <<"ZVM_VERSION">> THEN <<"11">> ELSE <<"https://zvm">>] }

UrlValues == {PyStr(<<"https://zvm">>), PyStr(<<"$", "{", "ZVM_URL", "}">>)}
VersionValues ==
    { PyStr(<<"10.x">>), PyStr(<<"pre-10">>), PyStr(<<"9.x">>),
      PyStr(<<"$", "{", "ZVM_VERSION", "}">>), PyInt(10), PyNone }
AuthValues ==
    { PyDict(EmptyDict), PyDict([k \in {"client_id"} |-> PyStr(<<"id">>)]),
      PyNone, PyStr(<<"10.x">>), PyList(<<>>), PyList(<<PyStr(<<"version">>)>>),
      PyInt(1), PyBool(FALSE) }
    \cup {PyDict([k \in {"version"} |-> v]) : v \in VersionValues}
    \cup {PyDict([k \in {"version", "client_id"} |->
                     IF k = "version" THEN v ELSE PyStr(<<"id">>)]) : v \in VersionValues}
TlsValues == {PyBool(TRUE), PyBool(FALSE), PyNone}

MappingDocs ==
    UNION { { PyDict([k \in K |->
                 CASE k = "zvm_url"    -> u
                   [] k = "auth"       -> a
                   [] k = "verify_tls" -> t
                   [] OTHER            -> PyStr(<<"out">>)]) :
              u \in UrlValues, a \in AuthValues, t \in TlsValues } :
            K \in SUBSET {"zvm_url", "auth", "verify_tls", "output_dir"} }

OtherDocs ==
    { PyNone, PyBool(TRUE), PyBool(FALSE), PyInt(0), PyInt(5),
      PyStr(<<>>), PyStr(<<"hello">>),
      PyStr(<<"zvm_url", " ", "auth", " ", "verify_tls", " ", "output_dir">>),
      PyList(<<>>), PyList(<<PyStr(<<"zvm_url">>)>>),
      PyList(<<PyStr(<<"zvm_url">>), PyStr(<<"auth">>), PyStr(<<"verify_tls">>),
               PyStr(<<"output_dir">>)>>) }

ConfigFiles ==
    {MissingFile, UnparsableFile} \cup {YamlFile(doc) : doc \in MappingDocs \cup OtherDocs}

LoadCalls == {[op |-> "load", file |-> f, env |-> e] : f \in ConfigFiles, e \in ConfigEnvs}

InitConfig ==
    /\ pc = "ready"
    /\ call \in ExpandCalls \cup LoadCalls
    /\ ret = "none"
    /\ config = NoConfig
    /\ InitWorld

CallExpandEnvVars ==
    /\ pc = "ready" /\ call.op = "_expand_env_vars"
    /\ ret' = ExpandEnvVars(call.content, call.env)
    /\ pc' = "done"
    /\ UNCHANGED <<call, config, world>>

CallLoad ==
    /\ pc = "ready" /\ call.op = "load"
    /\ ret' = Load(call.file, call.env, config).ret
    /\ config' = Load(call.file, call.env, config).config
    /\ pc' = "done"
    /\ UNCHANGED <<call, world>>

NextConfig ==
    \/ CallExpandEnvVars
    \/ CallLoad

SpecConfig == InitConfig /\ [][NextConfig]_vars

(***************************************************************************)
(* Claims about zerto/config.py, checked under SpecConfig                  *)
(***************************************************************************)
\* a ${NAME} token lies at positions i..j of the text
IsToken(text, i, j) ==
    /\ i >= 1 /\ j <= Len(text) /\ j >= i + 3
    /\ text[i] = "$" /\ text[i + 1] = "{" /\ text[j] = "}"
    /\ \A k \in (i + 2)..(j - 1) : text[k] # "}"

TokenStarts(text) == {i \in 1..Len(text) : \E j \in 1..Len(text) : IsToken(text, i, j)}

HasRequiredShape(v) ==
    /\ v.t = "dict"
    /\ {"zvm_url", "auth", "verify_tls", "output_dir"} \subseteq DOMAIN v.d
    /\ v.d["auth"].t = "dict"
    /\ "version" \in DOMAIN v.d["auth"].d
    /\ v.d["auth"].d["version"] \in {PyStr(<<"10.x">>), PyStr(<<"pre-10">>)}

\* C9: load returns a configuration only if it holds the four keys zvm_url,
\* auth, verify_tls and output_dir and auth.version is "10.x" or "pre-10";
\* every other configuration is rejected and nothing is returned; presence
\* is what counts, so such a configuration with verify_tls false is returned.
C9_ReturnsOnlyValid ==
    Returned("load") =>
        /\ ret.kind \in {"return", "raise"}
        /\ ret.kind = "return" =>
              /\ call.file.exists /\ call.file.parses
              /\ ret.value = ExpandDoc(call.file.doc, call.env)
              /\ HasRequiredShape(ret.value)
        /\ (call.file.exists /\ call.file.parses
                /\ HasRequiredShape(ExpandDoc(call.file.doc, call.env))) => ret.kind = "return"

C9_Witness ==
    /\ Returned("load")
    /\ ret.kind = "return"
    /\ ret.value.d["verify_tls"] = PyBool(FALSE)
    /\ call.file.doc.d["auth"].d["version"] = PyStr(<<"$", "{", "ZVM_VERSION", "}">>)
    /\ ret.value.d["auth"].d["version"] = PyStr(<<"10.x">>)

\* the error kinds load reports: missing file (FileNotFoundError); parse
\* error, missing field and invalid value (ValueError)
ConfigurationErrors == {"FileNotFoundError", "ValueError"}

\* C10: every failure of load is a configuration error of one of the four
\* reported kinds, whatever the file: no other error kind escapes.
C10_OnlyConfigurationErrors ==
    (Returned("load") /\ ret.kind = "raise") => ret.error \in ConfigurationErrors

(***************************************************************************)
(* zerto/auth.py                                                           *)
(*                                                                         *)
(* A call of authenticate() stops once, at the blocking requests.post: pc  *)
(* is "authenticate" when the factory has created the Auth object and is   *)
(* about to call its authenticate(), "awaiting" while the POST is in       *)
(* flight.  http holds one entry per request: the request and, once it     *)
(* came, the outcome of the call.                                          *)
(***************************************************************************)
TokenPath == "/auth/realms/zerto/protocol/openid-connect/token"
LoginPath == "/v1/auth/login"

NoResponse == [kind |-> "pending"]
\* requests.post raised a RequestException (connection, timeout, ...)
RequestFailed == [kind |-> "exception"]
\* a response with a status and a body; json is the value response.json()
\* gives, [t |-> "invalid"] when the body is not JSON
HttpResponse(status, json) == [kind |-> "response", status |-> status, json |-> json]
NotJson == [t |-> "invalid"]

Exchange(request) == [req |-> request, resp |-> NoResponse]

\* self.config.get("auth", {}): the auth block, an empty mapping when absent
AuthBlock(cfg) == Get(cfg.d, "auth", PyDict(EmptyDict))

Auth10xObject == [cls |-> "Auth10x", token |-> NoToken]
AuthLegacyObject == [cls |-> "AuthLegacy", token |-> NoToken]

MutSelectAuthLegacyDefault(auth_version) ==
    IF auth_version = PyStr(<<"10.x">>) THEN Auth10xObject ELSE AuthLegacyObject

\* authenticate (factory), lines 129-134: the Auth object for a version,
\* NoAuth for a version that is neither literal
SelectAuth(auth_version) ==
    IF auth_version = PyStr(<<"10.x">>) THEN Auth10xObject
    ELSE IF auth_version = PyStr(<<"pre-10">>) THEN AuthLegacyObject
    ELSE NoAuth

\* authenticate (factory), up to the call of auth.authenticate()
AuthenticateFactory ==
    /\ pc = "ready" /\ call.op = "authenticate"
    /\ IF AuthBlock(call.config).t # "dict"
       THEN /\ ret' = Raise("AttributeError", "object has no attribute 'get'")
            /\ pc' = "done"
            /\ authObj' = authObj
       ELSE LET selected == SelectAuth(Get(AuthBlock(call.config).d, "version", PyNone))
            IN  IF selected = NoAuth
                THEN /\ ret' = Raise("ValueError", "Unknown auth version")
                     /\ pc' = "done"
                     /\ authObj' = authObj
                ELSE /\ authObj' = selected
                     /\ pc' = "authenticate"
                     /\ ret' = ret
    /\ UNCHANGED <<call, config, http, files, clock>>

\* the two credentials a variant requires, None when absent
Credential(cfg, key) == Get(AuthBlock(cfg).d, key, PyNone)

MutCredentialsPresentFirstOnly(first, second) == Truthy(first)

\* `not first or not second` is false
CredentialsPresent(first, second) == Truthy(first) /\ Truthy(second)

\* Auth10x.authenticate, lines 38-60: the credential test and the POST
Auth10xPost ==
    /\ pc = "authenticate" /\ authObj.cls = "Auth10x"
    /\ LET client_id     == Credential(call.config, "client_id")
           client_secret == Credential(call.config, "client_secret")
       IN  IF ~CredentialsPresent(client_id, client_secret)
           THEN /\ ret' = Raise("ValueError", "Keycloak auth requires client_id and client_secret")
                /\ pc' = "done"
                /\ http' = http
           ELSE /\ http' = Append(http, Exchange(
                       [ method  |-> "POST",
                         base    |-> Get(call.config.d, "zvm_url", PyNone),
                         path    |-> TokenPath,
                         data    |-> [ grant_type    |-> "client_credentials",
                                       client_id     |-> client_id,
                                       client_secret |-> client_secret,
                                       scope         |-> "openid" ],
                         verify  |-> call.verify_tls,
                         timeout |-> call.timeout ]))
                /\ pc' = "awaiting"
                /\ ret' = ret
    /\ UNCHANGED <<call, config, authObj, files, clock>>

\* AuthLegacy.authenticate, lines 84-104: the credential test and the POST
AuthLegacyPost ==
    /\ pc = "authenticate" /\ authObj.cls = "AuthLegacy"
    /\ LET username == Credential(call.config, "username")
           password == Credential(call.config, "password")
       IN  IF ~CredentialsPresent(username, password)
           THEN /\ ret' = Raise("ValueError", "Legacy auth requires username and password")
                /\ pc' = "done"
                /\ http' = http
           ELSE /\ http' = Append(http, Exchange(
                       [ method  |-> "POST",
                         base    |-> Get(call.config.d, "zvm_url", PyNone),
                         path    |-> LoginPath,
                         json    |-> [username |-> username, password |-> password],
                         verify  |-> call.verify_tls,
                         timeout |-> call.timeout ]))
                /\ pc' = "awaiting"
                /\ ret' = ret
    /\ UNCHANGED <<call, config, authObj, files, clock>>

\* response.raise_for_status() raises HTTPError
IsErrorStatus(status) == status >= 400 /\ status < 600

MutTokenFromResponseAnyStatus(response, field, failed) ==
    IF response.kind = "exception" THEN Raise("Exception", failed)
    ELSE IF response.json = NotJson THEN Raise("Exception", failed)
    ELSE IF ~Iterable(response.json) THEN Raise("TypeError", "argument is not iterable")
    ELSE IF ~Contains(response.json, field) THEN Raise("ValueError", "No token in response")
    ELSE IF response.json.t # "dict" THEN Raise("TypeError", "indices must be integers")
    ELSE Return(response.json.d[field])

\* lines 61-70 and 105-114: what the variant returns or raises once the
\* POST came back.  A RequestException (also HTTPError of an error status
\* and the JSON decoding error of requests) is raised again as Exception;
\* `field not in data` and data[field] raise TypeError on JSON that is not
\* a mapping.
TokenFromResponse(response, field, failed) ==
    IF response.kind = "exception" THEN Raise("Exception", failed)
    ELSE IF IsErrorStatus(response.status) THEN Raise("Exception", failed)
    ELSE IF response.json = NotJson THEN Raise("Exception", failed)
    ELSE IF ~Iterable(response.json) THEN Raise("TypeError", "argument is not iterable")
    ELSE IF ~Contains(response.json, field) THEN Raise("ValueError", "No token in response")
    ELSE IF response.json.t # "dict" THEN Raise("TypeError", "indices must be integers")
    ELSE Return(response.json.d[field])

\* the outcomes of one POST
JsonBodies ==
    { NotJson, PyNone, PyInt(1), PyDict(EmptyDict),
      PyStr(<<"access_token">>), PyList(<<PyStr(<<"access_token">>), PyStr(<<"sessionId">>)>>),
      PyDict([k \in {"access_token"} |-> PyStr(<<"tokA">>)]),
      PyDict([k \in {"sessionId"} |-> PyStr(<<"tokS">>)]),
      PyDict([k \in {"access_token", "sessionId"} |->
                 IF k = "access_token" THEN PyStr(<<"tokA">>) ELSE PyStr(<<"tokS">>)]),
      PyDict([k \in {"access_token", "sessionId"} |-> PyNone]) }
Responses ==
    {RequestFailed}
    \cup {HttpResponse(s, j) : s \in {200, 204, 302, 400, 401, 500}, j \in JsonBodies}

\* the last exchange gets its outcome
Answered(log, response) == [log EXCEPT ![Len(log)].resp = response]

\* Auth10x.authenticate, lines 61-70: the POST came back
Auth10xResponse ==
    /\ pc = "awaiting" /\ authObj.cls = "Auth10x"
    /\ \E response \in Responses :
          LET outcome == TokenFromResponse(response, "access_token", "Keycloak auth failed")
          IN  /\ http' = Answered(http, response)
              /\ ret' = outcome
              /\ authObj' = IF outcome.kind = "return"
                            THEN [authObj EXCEPT !.token = outcome.value] ELSE authObj
    /\ pc' = "done"
    /\ UNCHANGED <<call, config, files, clock>>

\* AuthLegacy.authenticate, lines 105-114: the POST came back
AuthLegacyResponse ==
    /\ pc = "awaiting" /\ authObj.cls = "AuthLegacy"
    /\ \E response \in Responses :
          LET outcome == TokenFromResponse(response, "sessionId", "Legacy auth failed")
          IN  /\ http' = Answered(http, response)
              /\ ret' = outcome
              /\ authObj' = IF outcome.kind = "return"
                            THEN [authObj EXCEPT !.token = outcome.value] ELSE authObj
    /\ pc' = "done"
    /\ UNCHANGED <<call, config, files, clock>>

(***************************************************************************)
(* authenticate() called with configurations drawn from bounded sets: any  *)
(* mapping, and every configuration ConfigLoader.load returns              *)
(***************************************************************************)
CredentialKeys == {"client_id", "client_secret", "username", "password"}

\* auth blocks: a version or none, and any of the four credentials
AuthBlocks ==
    UNION { { PyDict([k \in K |-> IF k = "version" THEN v ELSE c[k]]) :
                v \in VersionValues, c \in [CredentialKeys -> {PyNone, PyStr(<<>>), PyStr(<<"secret">>)}] } :
            K \in { {"version"} \cup C : C \in SUBSET CredentialKeys }
                  \cup { {"client_id", "client_secret"}, {"username", "password"} } }

DirectConfigs ==
    { PyDict([k \in {"zvm_url", "auth"} |->
                 IF k = "zvm_url" THEN PyStr(<<"https://zvm">>) ELSE a]) :
         a \in AuthBlocks \cup {PyNone, PyStr(<<"10.x">>), PyList(<<>>)} }
    \cup { PyDict([k \in {"zvm_url"} |-> PyStr(<<"https://zvm">>)]) }

\* what load returns for the explored files
LoadedConfigs ==
    { Load(f, e, NoConfig).ret.value :
         <<f, e>> \in { x \in ConfigFiles \X ConfigEnvs :
                           Load(x[1], x[2], NoConfig).ret.kind = "return" } }

DefaultTimeout == 60

AuthenticateCalls ==
    { [op |-> "authenticate", config |-> c, loaded |-> FALSE,
       verify_tls |-> v, timeout |-> DefaultTimeout] : c \in DirectConfigs, v \in BOOLEAN }
    \cup
    { [op |-> "authenticate", config |-> c, loaded |-> TRUE,
       verify_tls |-> TRUE,
       timeout |-> DefaultTimeout] : c \in LoadedConfigs }

InitAuth ==
    /\ pc = "ready"
    /\ call \in AuthenticateCalls
    /\ ret = "none"
    /\ config = NoConfig
    /\ InitWorld

NextAuth ==
    \/ AuthenticateFactory
    \/ Auth10xPost
    \/ AuthLegacyPost
    \/ Auth10xResponse
    \/ AuthLegacyResponse

SpecAuth == InitAuth /\ [][NextAuth]_vars

(***************************************************************************)
(* Claims about zerto/auth.py, checked under SpecAuth                      *)
(***************************************************************************)
\* auth.version of the configuration passed to authenticate, None when the
\* auth block or the key is absent or the block is not a mapping
CalledVersion ==
    IF "auth" \in DOMAIN call.config.d /\ call.config.d["auth"].t = "dict"
       /\ "version" \in DOMAIN call.config.d["auth"].d
    THEN call.config.d["auth"].d["version"] ELSE PyNone

RequestPaths == {http[i].req.path : i \in 1..Len(http)}

\* C11: "10.x" runs only the OIDC flow (POST to the token endpoint, token
\* from access_token), "pre-10" only the legacy flow (POST to the login
\* endpoint, token from sessionId); any other version, also an absent one,
\* raises an error and no endpoint is contacted.
C11_FlowByVersion ==
    call.op = "authenticate" =>
        /\ CalledVersion = PyStr(<<"10.x">>) =>
              /\ RequestPaths \subseteq {TokenPath}
              /\ authObj.cls \in {"none", "Auth10x"}
              /\ (pc = "done" /\ ret.kind = "return") =>
                    ret.value = http[Len(http)].resp.json.d["access_token"]
        /\ CalledVersion = PyStr(<<"pre-10">>) =>
              /\ RequestPaths \subseteq {LoginPath}
              /\ authObj.cls \in {"none", "AuthLegacy"}
              /\ (pc = "done" /\ ret.kind = "return") =>
                    ret.value = http[Len(http)].resp.json.d["sessionId"]
        /\ CalledVersion \notin {PyStr(<<"10.x">>), PyStr(<<"pre-10">>)} =>
              /\ http = <<>>
              /\ authObj = NoAuth
              /\ pc \in {"ready", "done"}
              /\ pc = "done" => ret.kind = "raise"

C11_Witness ==
    /\ pc = "done" /\ call.op = "authenticate"
    /\ CalledVersion = PyStr(<<"pre-10">>)
    /\ ret.kind = "return"
    /\ Len(http) = 1 /\ http[1].req.path = LoginPath
    /\ http[1].resp.json.t = "dict"
    /\ DOMAIN http[1].resp.json.d = {"access_token", "sessionId"}
    /\ ret = Return(PyStr(<<"tokS">>))

\* the two credentials the selected variant requires are present and not empty
RequiredCredentialsGiven ==
    LET given(k) == /\ call.config.d["auth"].t = "dict"
                    /\ k \in DOMAIN call.config.d["auth"].d
                    /\ call.config.d["auth"].d[k] \notin {PyNone, PyStr(<<>>)}
    IN  IF authObj.cls = "Auth10x" THEN given("client_id") /\ given("client_secret")
        ELSE given("username") /\ given("password")

ExpectedField == IF authObj.cls = "Auth10x" THEN "access_token" ELSE "sessionId"

\* the POST succeeded with a non-error status and the JSON body holds the
\* variant's token field
TokenDelivered ==
    /\ Len(http) = 1
    /\ http[1].resp.kind = "response"
    /\ http[1].resp.status \notin 400..599
    /\ http[1].resp.json.t = "dict"
    /\ ExpectedField \in DOMAIN http[1].resp.json.d

\* C12: in both variants authenticate() returns a token only when the two
\* required credentials are present and non-empty, the HTTP call succeeded
\* with a non-error status and the response holds the expected token field;
\* otherwise it raises and returns no token; the token is that field's value.
C12_TokenOnlyOnSuccess ==
    (pc = "done" /\ call.op = "authenticate" /\ authObj # NoAuth) =>
        /\ ret.kind \in {"return", "raise"}
        /\ ret.kind = "return" <=> (RequiredCredentialsGiven /\ TokenDelivered)
        /\ ret.kind = "return" =>
              /\ ret.value = http[1].resp.json.d[ExpectedField]
              /\ authObj.token = ret.value
        /\ ret.kind = "raise" => authObj.token = NoToken

C12_Witness ==
    /\ pc = "done" /\ call.op = "authenticate" /\ authObj.cls = "Auth10x"
    /\ ret = Return(PyStr(<<"tokA">>))
    /\ http[1].resp.kind = "response" /\ http[1].resp.status = 200
    /\ authObj.token = PyStr(<<"tokA">>)

\* C13: every execution of authenticate() issues at most one HTTP request
\* (no retry after a failed request or a response without the token field)
\* and none when the required credentials are absent.
C13_SingleAttempt ==
    call.op = "authenticate" =>
        /\ Len(http) <= 1
        /\ (authObj # NoAuth /\ ~RequiredCredentialsGiven) => http = <<>>
        /\ authObj = NoAuth => http = <<>>

C13_Witness ==
    /\ pc = "done" /\ call.op = "authenticate"
    /\ Len(http) = 1 /\ http[1].resp = RequestFailed
    /\ ret.kind = "raise"

\* C20: the versions config validation accepts are the versions the
\* authenticator dispatches: for every configuration load returned,
\* authenticate never fails with the unknown-version error and enters
\* exactly one of the two flows.
C20_LoadedVersionDispatched ==
    /\ {v \in VersionValues : v \in AuthVersions}
          = {v \in VersionValues : SelectAuth(v) # NoAuth}
    /\ (call.op = "authenticate" /\ call.loaded /\ pc # "ready") =>
          /\ authObj.cls \in {"Auth10x", "AuthLegacy"}
          /\ pc = "done" => ret # Raise("ValueError", "Unknown auth version")
          /\ RequestPaths \subseteq
                (IF authObj.cls = "Auth10x" THEN {TokenPath} ELSE {LoginPath})

C20_Witness ==
    /\ pc = "done" /\ call.op = "authenticate" /\ call.loaded
    /\ authObj.cls = "AuthLegacy"
    /\ ret = Raise("ValueError", "Legacy auth requires username and password")

(***************************************************************************)
(* zerto/api.py: ZvmApi.test_connectivity                                  *)
(***************************************************************************)
ServerInfoPath == "/v1/serverInfo"

\* ZvmApi._create_session: the headers of every request of the session
SessionHeaders(token) ==
    [Authorization |-> <<"Bearer ", token>>, ContentType |-> "application/json"]

MutConnectivityResultAnySuccess(response) ==
    response.kind = "response" /\ ~IsErrorStatus(response.status)

\* test_connectivity, lines 95-97: status_code == 200, False for a
\* RequestException
ConnectivityResult(response) ==
    response.kind = "response" /\ response.status = 200

\* test_connectivity, lines 92-94: the GET is sent
TestConnectivityGet ==
    /\ pc = "ready" /\ call.op = "test_connectivity"
    /\ http' = Append(http, Exchange(
            [ method  |-> "GET",
              base    |-> call.zvm_url,
              path    |-> ServerInfoPath,
              headers |-> SessionHeaders(call.token),
              verify  |-> call.verify_tls,
              timeout |-> call.timeout ]))
    /\ pc' = "awaiting"
    /\ UNCHANGED <<call, ret, config, authObj, files, clock>>

\* test_connectivity, lines 94-97: the GET came back or failed
TestConnectivityResponse ==
    /\ pc = "awaiting" /\ call.op = "test_connectivity"
    /\ \E response \in Responses :
          /\ http' = Answered(http, response)
          /\ ret' = Return(PyBool(ConnectivityResult(response)))
    /\ pc' = "done"
    /\ UNCHANGED <<call, config, authObj, files, clock>>

ZvmUrls == {<<"https://zvm">>, <<"https://zvm", ":9669">>}

InitApi ==
    /\ pc = "ready"
    /\ call \in [ op : {"test_connectivity"}, zvm_url : ZvmUrls,
                   token : {<<"tokA">>, <<"tokS">>}, verify_tls : BOOLEAN,
                   timeout : {DefaultTimeout, 5} ]
    /\ ret = "none"
    /\ config = NoConfig
    /\ InitWorld

NextApi ==
    \/ TestConnectivityGet
    \/ TestConnectivityResponse

SpecApi == InitApi /\ [][NextApi]_vars

(***************************************************************************)
(* Claims about zerto/api.py, checked under SpecApi                        *)
(***************************************************************************)
\* C14: test_connectivity returns true if and only if the single GET to the
\* server-info endpoint completes with HTTP status 200; for every other
\* status and for every failure of the request it returns false and
\* propagates no error.
C14_ProbeTrueIffStatus200 ==
    call.op = "test_connectivity" =>
        /\ Len(http) <= 1
        /\ \A i \in 1..Len(http) :
              http[i].req.method = "GET" /\ http[i].req.path = ServerInfoPath
        /\ pc = "done" =>
              /\ Len(http) = 1
              /\ ret.kind = "return"
              /\ ret.value \in {PyBool(TRUE), PyBool(FALSE)}
              /\ ret.value = PyBool(TRUE) <=>
                    (http[1].resp.kind = "response" /\ http[1].resp.status = 200)

C14_WitnessTrue ==
    /\ Returned("test_connectivity")
    /\ http[1].resp.kind = "response" /\ http[1].resp.status = 200
    /\ ret = Return(PyBool(TRUE))

C14_Witness ==
    /\ Returned("test_connectivity")
    /\ http[1].resp.kind = "response" /\ http[1].resp.status = 204
    /\ ret = Return(PyBool(FALSE))

(***************************************************************************)
(* zerto/output.py: ReportGenerator.  Texts are sequences of symbols; a    *)
(* file's content is the text written (HTML), the rows written (CSV) or    *)
(* the JSON document written.                                              *)
(***************************************************************************)
\* a float with at most two decimals, carried in hundredths
PyFloat(h) == [t |-> "float", h |-> h]

\* str(n) of an integer
RECURSIVE NatText(_)
NatText(n) ==
    IF n < 10 THEN <<DigitChar(n)>> ELSE NatText(n \div 10) \o <<DigitChar(n % 10)>>
IntText(n) == IF n < 0 THEN <<"-">> \o NatText(-n) ELSE NatText(n)

\* repr(x) of a float of at most two decimals: the shortest text that reads
\* back as x, with one decimal at least
FloatRepr(h) ==
    LET a == IF h < 0 THEN -h ELSE h
        sign == IF h < 0 THEN <<"-">> ELSE <<>>
        decimals == IF a % 10 = 0 THEN <<DigitChar((a % 100) \div 10)>>
                    ELSE <<DigitChar((a % 100) \div 10), DigitChar(a % 10)>>
    IN  sign \o NatText(a \div 100) \o <<".">> \o decimals

\* format(x, ".1f") of an integer or of a float whose hundredths are a
\* multiple of ten (the inputs explored; other floats round on their binary
\* value)
FormatOneDecimal(v) ==
    IF v.t = "int" THEN IntText(v.n) \o <<".", "0">>
    ELSE LET a == IF v.h < 0 THEN -v.h ELSE v.h
         IN  (IF v.h < 0 THEN <<"-">> ELSE <<>>)
             \o NatText(a \div 100) \o <<".">> \o <<DigitChar((a % 100) \div 10)>>

\* str(value), as an f-string and csv.writer convert a scalar
PyText(v) ==
    CASE v.t = "none"  -> <<"None">>
      [] v.t = "bool"  -> IF v.b THEN <<"True">> ELSE <<"False">>
      [] v.t = "int"   -> IntText(v.n)
      [] v.t = "float" -> FloatRepr(v.h)
      [] v.t = "str"   -> v.s

\* the clock counts ticks of half a second from BaseTime on; an instant is
\* [date, second of the day, microsecond]
MicrosPerTick == 500000
SecondsPerDay == 86400
BaseTime == [date |-> [y |-> 2026, m |-> 12, d |-> 31], sec |-> 86399, micro |-> 0]

\* datetime.now() when the clock shows t ticks
TimeAt(t) ==
    LET micros == BaseTime.micro + t * MicrosPerTick
        secs   == BaseTime.sec + micros \div 1000000
    IN  [ date  |-> AddDays(BaseTime.date, secs \div SecondsPerDay),
          sec   |-> secs % SecondsPerDay,
          micro |-> micros % 1000000 ]

\* n in width digits, zero padded
RECURSIVE Padded(_, _)
Padded(n, width) ==
    IF width = 0 THEN <<>> ELSE Padded(n \div 10, width - 1) \o <<DigitChar(n % 10)>>

\* %H:%M:%S
ClockText(sec) ==
    Padded(sec \div 3600, 2) \o <<":">> \o Padded((sec \div 60) % 60, 2)
        \o <<":">> \o Padded(sec % 60, 2)

\* now.strftime("%Y-%m-%d %H:%M:%S")
StrftimeSeconds(now) == Strftime(now.date) \o <<" ">> \o ClockText(now.sec)

\* now.isoformat(): the microseconds are left out when they are zero
IsoFormat(now) ==
    Strftime(now.date) \o <<"T">> \o ClockText(now.sec)
        \o (IF now.micro = 0 THEN <<>> ELSE <<".">> \o Padded(now.micro, 6))


\* str.capitalize() of the severities that occur
Capitalize(text) ==
    IF text = <<>> THEN <<>>
    ELSE << CASE text[1] = "critical" -> "Critical"
              [] text[1] = "warning"  -> "Warning"
              [] text[1] = "info"     -> "Info"
              [] text[1] = "notice"   -> "Notice" >> \o Tail(text)

\* _render_alerts, lines 257-261
BadgeClass(severity) ==
    CASE severity = PyStr(<<"critical">>) -> "danger"
      [] severity = PyStr(<<"warning">>)  -> "warning"
      [] severity = PyStr(<<"info">>)     -> "info"
      [] OTHER                            -> "secondary"

\* _render_alerts, lines 252-268: the blocks of the alerts from number i on
RECURSIVE AlertBlocks(_, _)
AlertBlocks(alerts, i) ==
    IF i > Len(alerts) THEN <<>>
    ELSE LET alert          == alerts[i]
             severity       == Get(alert.d, "severity", PyStr(<<"info">>))
             message        == Get(alert.d, "message", PyStr(<<>>))
             recommendation == Get(alert.d, "recommendation", PyStr(<<>>))
         IN  <<"<div class=\"alert alert-", BadgeClass(severity), "\" role=\"alert\"><strong>">>
             \o Capitalize(severity.s) \o <<":</strong> ">> \o PyText(message)
             \o <<"<br><small>">> \o PyText(recommendation) \o <<"</small></div>">>
             \o AlertBlocks(alerts, i + 1)

\* ReportGenerator._render_alerts
RenderAlerts(alerts) ==
    IF ~Truthy(alerts) THEN <<"<p class='text-success'>No alerts</p>">>
    ELSE AlertBlocks(alerts.items, 1)

\* generate_html, lines 46-144: the template with its fields filled in (the
\* fixed markup between two fields is one symbol)
HtmlContent(license_data, consumption_data, metrics, tls_verified, zerto_version, tool_version, now) ==
    LET timestamp == StrftimeSeconds(now)
    IN  <<"<!DOCTYPE html><html lang=\"en\"><head>...</head><body>",
          "<h1>Zerto Licensing Utilization Report</h1>", "<p>Generated: ">>
        \o timestamp
        \o <<"</p><p>Zerto v">> \o PyText(zerto_version)
        \o <<" | Tool v">> \o PyText(tool_version)
        \o <<" | TLS: ", IF tls_verified THEN "U+2713 Verified" ELSE "U+26A0 Disabled">>
        \o <<"</p>", "Entitled Protected VMs<h2>">>
        \o PyText(Get(license_data.d, "entitled_vms", PyInt(0)))
        \o <<"</h2>", "Current Protected VMs<h2>">>
        \o PyText(Get(consumption_data.d, "protected_vms", PyInt(0)))
        \o <<"</h2>", "Utilization<h2>">>
        \o FormatOneDecimal(Get(metrics.d, "utilization_pct", PyInt(0)))
        \o <<"%</h2>", "Risk Score<h2>">>
        \o PyText(Get(metrics.d, "risk_score", PyInt(0)))
        \o <<"</h2>", "Alerts & Recommendations">>
        \o RenderAlerts(Get(metrics.d, "alerts", PyList(<<>>)))
        \o <<"License Information", "License Key: ">>
        \o PyText(Get(license_data.d, "key", PyStr(<<"N/A">>)))
        \o <<"Expiration Date: ">>
        \o PyText(Get(license_data.d, "expiration_date", PyStr(<<"N/A">>)))
        \o <<"Days to Expiry: ">>
        \o PyText(Get(license_data.d, "days_to_expiry", PyInt(0)))
        \o <<"<footer>Report generated on ">> \o timestamp
        \o <<"</footer></body></html>">>

\* csv.writer: a field is str(value), the empty text for None
CsvField(v) == IF v.t = "none" THEN <<>> ELSE PyText(v)

MutSiteRowComputed(site, license_data, metrics, timestamp) ==
    << CsvField(Get(site.d, "name", PyStr(<<"Unknown">>))),
       CsvField(Get(site.d, "protected_vms", PyInt(0))),
       CsvField(Get(license_data.d, "entitled_vms", PyInt(0))),
       CsvField(Get(metrics.d, "utilization_pct", PyInt(0))),
       CsvField(Get(metrics.d, "risk_score", PyInt(0))),
       timestamp >>

\* generate_csv, lines 185-192: the row of one site
SiteRow(site, license_data, metrics, timestamp) ==
    << CsvField(Get(site.d, "name", PyStr(<<"Unknown">>))),
       CsvField(Get(site.d, "protected_vms", PyInt(0))),
       CsvField(Get(license_data.d, "entitled_vms", PyInt(0))),
       CsvField(PyInt(0)),
       CsvField(PyInt(0)),
       timestamp >>

\* generate_csv, lines 170-192: the rows handed to writerows
CsvRows(license_data, consumption_data, metrics, now) ==
    LET timestamp == StrftimeSeconds(now)
        header  == << <<"Site">>, <<"Protected VMs">>, <<"Entitled VMs">>,
                      <<"Utilization %">>, <<"Risk Score">>, <<"Timestamp">> >>
        summary == << <<"SUMMARY">>,
                      CsvField(Get(consumption_data.d, "protected_vms", PyInt(0))),
                      CsvField(Get(license_data.d, "entitled_vms", PyInt(0))),
                      CsvField(Get(metrics.d, "utilization_pct", PyInt(0))),
                      CsvField(Get(metrics.d, "risk_score", PyInt(0))),
                      timestamp >>
        sites   == IF "sites" \in DOMAIN consumption_data.d
                   THEN consumption_data.d["sites"].items ELSE <<>>
    IN  <<header, summary>>
        \o [i \in 1..Len(sites) |-> SiteRow(sites[i], license_data, metrics, timestamp)]

\* json.dump: the JSON value written for a Python value
RECURSIVE JsonValue(_)
JsonValue(v) ==
    CASE v.t = "none"  -> [j |-> "null"]
      [] v.t = "bool"  -> [j |-> IF v.b THEN "true" ELSE "false"]
      [] v.t = "int"   -> [j |-> "number", text |-> IntText(v.n)]
      [] v.t = "float" -> [j |-> "number", text |-> FloatRepr(v.h)]
      [] v.t = "str"   -> [j |-> "string", s |-> v.s]
      [] v.t = "list"  -> [j |-> "array",
                           items |-> [i \in 1..Len(v.items) |-> JsonValue(v.items[i])]]
      [] v.t = "dict"  -> [j |-> "object",
                           members |-> [k \in DOMAIN v.d |-> JsonValue(v.d[k])]]

MutJsonReportUrlFromVersion(license_data, consumption_data, metrics, history, tls_verified, zerto_version, tool_version, now) ==
    LET meta == [ generated_at  |-> PyStr(IsoFormat(now) \o <<"Z">>),
                  zvm_url       |-> zerto_version,
                  zerto_version |-> zerto_version,
                  tool_version  |-> tool_version,
                  tls_verified  |-> PyBool(tls_verified) ]
    IN  PyDict([ meta        |-> PyDict(meta),
                 license     |-> license_data,
                 consumption |-> consumption_data,
                 metrics     |-> metrics,
                 history     |-> history ])

\* generate_json, lines 226-238
JsonReport(license_data, consumption_data, metrics, history, tls_verified, zerto_version, tool_version, now) ==
    LET meta == [ generated_at  |-> PyStr(IsoFormat(now) \o <<"Z">>),
                  zvm_url       |-> PyStr(<<"[REDACTED]">>),
                  zerto_version |-> zerto_version,
                  tool_version  |-> tool_version,
                  tls_verified  |-> PyBool(tls_verified) ]
    IN  PyDict([ meta        |-> PyDict(meta),
                 license     |-> license_data,
                 consumption |-> consumption_data,
                 metrics     |-> metrics,
                 history     |-> history ])

\* models.py, ZertoData.to_dict; the dataclasses are carried as the mappings
\* asdict gives
ToDict(data) ==
    PyDict([ meta        |-> data.meta,
             license     |-> data.license,
             consumption |-> data.consumption,
             metrics     |-> data.metrics,
             history     |-> data.history,
             api_health  |-> data.api_health ])


\* what a file holds: the text written, the rows csv.writer wrote, or the
\* document json.dump wrote
TextFile(text) == [format |-> "text", text |-> text]
CsvFile(rows) == [format |-> "csv", rows |-> rows]
JsonDump(report, indent) == [format |-> "json", indent |-> indent, doc |-> JsonValue(report)]

HtmlFileName == "report.html"
CsvFileName == "licensing_utilization.csv"
JsonFileName == "licensing_utilization.json"

\* str(self.output_dir / name)
OutputPath(output_dir, name) == <<output_dir, "/", name>>

MutWriteFileAlone(dir, name, content) == [n \in {name} |-> content]

\* open(output_file, 'w') and the write: the file gets the content, every
\* other file of the directory stays as it is
WriteFile(dir, name, content) ==
    [n \in DOMAIN dir \cup {name} |-> IF n = name THEN content ELSE dir[n]]

\* the arguments the renders take from the aggregate: generate_* have
\* parameters for license, consumption, metrics and history only
RenderArgs == ToDict(call.data).d

MaxClock == 2

\* ReportGenerator.generate_html
GenerateHtml ==
    /\ pc \in {"ready", "done"} /\ call.op = "render"
    /\ \E now \in clock..MaxClock :
          /\ clock' = now
          /\ files' = WriteFile(files, HtmlFileName,
                         TextFile(HtmlContent(RenderArgs["license"], RenderArgs["consumption"], RenderArgs["metrics"],
                                              call.tls_verified, call.zerto_version,
                                              call.tool_version, TimeAt(now))))
    /\ ret' = Return(OutputPath(call.output_dir, HtmlFileName))
    /\ pc' = "done"
    /\ UNCHANGED <<call, config, http, authObj>>

\* ReportGenerator.generate_csv
GenerateCsv ==
    /\ pc \in {"ready", "done"} /\ call.op = "render"
    /\ \E now \in clock..MaxClock :
          /\ clock' = now
          /\ files' = WriteFile(files, CsvFileName,
                         CsvFile(CsvRows(RenderArgs["license"], RenderArgs["consumption"], RenderArgs["metrics"],
                                         TimeAt(now))))
    /\ ret' = Return(OutputPath(call.output_dir, CsvFileName))
    /\ pc' = "done"
    /\ UNCHANGED <<call, config, http, authObj>>

\* ReportGenerator.generate_json
GenerateJson ==
    /\ pc \in {"ready", "done"} /\ call.op = "render"
    /\ \E now \in clock..MaxClock :
          /\ clock' = now
          /\ files' = WriteFile(files, JsonFileName,
                         JsonDump(JsonReport(RenderArgs["license"], RenderArgs["consumption"], RenderArgs["metrics"],
                                             RenderArgs["history"], call.tls_verified,
                                             call.zerto_version, call.tool_version,
                                             TimeAt(now)), 2))
    /\ ret' = Return(OutputPath(call.output_dir, JsonFileName))
    /\ pc' = "done"
    /\ UNCHANGED <<call, config, http, authObj>>

(***************************************************************************)
(* The renders called with aggregates drawn from bounded sets, in an       *)
(* output directory that is empty or holds files of an earlier run         *)
(***************************************************************************)
MockLicense ==
    PyDict([ key             |-> PyStr(<<"XXXX-XXXX-XXXX-XXXX">>),
             entitled_vms    |-> PyInt(500),
             expiration_date |-> PyStr(<<"2026-06-30">>),
             days_to_expiry  |-> PyInt(180) ])

SiteDict(name, protected_vms, vpgs) ==
    PyDict([name |-> PyStr(<<name>>), protected_vms |-> PyInt(protected_vms),
            vpgs |-> PyInt(vpgs)])
PrimarySite == SiteDict("Primary-DC", 210, 48)
SecondarySite == SiteDict("Secondary-DC", 202, 49)

Consumptions ==
    { PyDict([protected_vms |-> PyInt(412), vpgs |-> PyInt(97)]), PyDict(EmptyDict) }
    \cup { PyDict([protected_vms |-> PyInt(412), vpgs |-> PyInt(97),
                   sites |-> PyList(sites)]) :
              sites \in { <<>>, <<PrimarySite, SecondarySite>>, <<SecondarySite, PrimarySite>>,
                          <<PyDict([vpgs |-> PyInt(3)]), PrimarySite, PrimarySite>> } }

AlertDict(alert) ==
    PyDict([k \in {"severity", "message", "recommendation"} |-> PyStr(<<alert[k]>>)])
MetricsDicts ==
    { PyDict([ utilization_pct |-> PyFloat(8240), risk_score |-> PyInt(56),
               alerts |-> PyList(alerts) ]) :
          alerts \in
             { <<>>,
               <<AlertDict(Alert("critical", "Utilization critical",
                                 "Consider license expansion"))>>,
               <<AlertDict(Alert("warning", "Utilization high", "Monitor closely")),
                 AlertDict(Alert("info", "License expiration reminder",
                                 "Plan license renewal"))>> } }
    \cup { PyDict(EmptyDict) }

\* the ZertoData aggregates
Aggregates ==
    [ meta        : { PyDict([ zvm_url       |-> PyStr(<<"https://zvm">>),
                               zerto_version |-> PyStr(<<"10.0">>) ]) },
      license     : {MockLicense, PyDict(EmptyDict)},
      consumption : Consumptions,
      metrics     : MetricsDicts,
      history     : { PyDict([k \in {"days_7", "days_30", "days_90"} |-> PyList(<<>>)]) },
      api_health  : { PyDict([ license     |-> PyStr(<<"ok">>),
                               consumption |-> PyStr(<<"ok">>) ]) } ]

StaleContent == TextFile(<<"left by an earlier run">>)

InitOutput ==
    /\ pc = "ready"
    \* zerto_version may itself look like the manager URL
    /\ call \in [ op : {"render"}, output_dir : {"reports"}, data : Aggregates,
                   tls_verified : BOOLEAN,
                   zerto_version : {PyStr(<<"Unknown">>), PyStr(<<"https://zvm">>)},
                   tool_version : {PyStr(<<"1.0.0">>)} ]
    /\ ret = "none"
    /\ config = NoConfig
    /\ http = <<>>
    /\ authObj = NoAuth
    /\ files \in { [n \in S |-> StaleContent] :
                      S \in { {}, {HtmlFileName, JsonFileName, "notes.txt"} } }
    /\ clock = 0

NextOutput ==
    \/ GenerateHtml
    \/ GenerateCsv
    \/ GenerateJson

SpecOutput == InitOutput /\ [][NextOutput]_vars

(***************************************************************************)
(* Claims about zerto/output.py, checked under SpecOutput                  *)
(***************************************************************************)
\* the file was written by a render of this run
Written(name) == name \in DOMAIN files /\ files[name] # StaleContent

JsonMeta == files[JsonFileName].doc.members["meta"].members

\* C15: for every input to generate_json the written report's meta.zvm_url
\* is the redaction marker, never the manager URL or any other value that
\* depends on an argument.
C15_ManagerUrlRedacted ==
    Written(JsonFileName) =>
        /\ JsonMeta["zvm_url"] = [j |-> "string", s |-> <<"[REDACTED]">>]
        /\ \A u \in ZvmUrls : JsonMeta["zvm_url"] # JsonValue(PyStr(u))
        /\ JsonMeta["zvm_url"] # JsonValue(call.zerto_version)

C15_Witness ==
    /\ pc = "done" /\ ret = Return(OutputPath(call.output_dir, JsonFileName))
    /\ call.zerto_version = PyStr(<<"https://zvm">>)
    /\ JsonMeta["zerto_version"] = [j |-> "string", s |-> <<"https://zvm">>]
    /\ JsonMeta["zvm_url"] = [j |-> "string", s |-> <<"[REDACTED]">>]

\* C16: every component of the ZertoData aggregate (meta, license,
\* consumption, metrics, history map and API-health map) appears in the
\* output of generate_json with its input value, the manager URL of meta
\* being redacted.
C16_AggregateVerbatim ==
    Written(JsonFileName) =>
        LET aggregate == ToDict(call.data).d
            report    == files[JsonFileName].doc.members
        IN  \A k \in DOMAIN aggregate :
               /\ k \in DOMAIN report
               /\ IF k = "meta"
                  THEN \A f \in DOMAIN aggregate[k].d :
                          /\ f \in DOMAIN report[k].members
                          /\ report[k].members[f] =
                                JsonValue(IF f = "zvm_url" THEN PyStr(<<"[REDACTED]">>)
                                          ELSE aggregate[k].d[f])
                  ELSE report[k] = JsonValue(aggregate[k])

\* the components generate_json has a parameter for are written verbatim
C16_PassedComponentsVerbatim ==
    Written(JsonFileName) =>
        LET aggregate == ToDict(call.data).d
            report    == files[JsonFileName].doc.members
        IN  /\ DOMAIN report = {"meta", "license", "consumption", "metrics", "history"}
            /\ \A k \in DOMAIN report \ {"meta"} : report[k] = JsonValue(aggregate[k])

CsvSites ==
    IF "sites" \in DOMAIN call.data.consumption.d
    THEN call.data.consumption.d["sites"].items ELSE <<>>

\* C17: generate_csv writes the header row, one SUMMARY row with the overall
\* protected VMs, entitled VMs, utilization and risk score, then one row per
\* site in the order of the site list (2 + N rows, 2 without a sites key);
\* every site row has utilization 0 and risk score 0.
C17_CsvRows ==
    Written(CsvFileName) =>
        LET rows == files[CsvFileName].rows
        IN  /\ Len(rows) = 2 + Len(CsvSites)
            /\ rows[1] = << <<"Site">>, <<"Protected VMs">>, <<"Entitled VMs">>,
                            <<"Utilization %">>, <<"Risk Score">>, <<"Timestamp">> >>
            /\ rows[2][1] = <<"SUMMARY">>
            /\ call.data.consumption # PyDict(EmptyDict) => rows[2][2] = <<"4", "1", "2">>
            /\ call.data.license = MockLicense => rows[2][3] = <<"5", "0", "0">>
            /\ call.data.metrics # PyDict(EmptyDict) =>
                  rows[2][4] = <<"8", "2", ".", "4">> /\ rows[2][5] = <<"5", "6">>
            /\ \A i \in 1..Len(CsvSites) :
                  /\ rows[2 + i][1] = (IF "name" \in DOMAIN CsvSites[i].d
                                       THEN CsvSites[i].d["name"].s ELSE <<"Unknown">>)
                  /\ rows[2 + i][4] = <<"0">>
                  /\ rows[2 + i][5] = <<"0">>
                  /\ Len(rows[2 + i]) = 6

C17_Witness ==
    /\ pc = "done" /\ ret = Return(OutputPath(call.output_dir, CsvFileName))
    /\ call.data.metrics # PyDict(EmptyDict)
    /\ CsvSites = <<SecondarySite, PrimarySite>>
    /\ Len(files[CsvFileName].rows) = 4
    /\ files[CsvFileName].rows[3][1] = <<"Secondary-DC">>
    /\ files[CsvFileName].rows[4][1] = <<"Primary-DC">>
    /\ files[CsvFileName].rows[3][4] = <<"0">>

C17_WitnessNoSites ==
    /\ pc = "done" /\ ret = Return(OutputPath(call.output_dir, CsvFileName))
    /\ "sites" \notin DOMAIN call.data.consumption.d
    /\ Len(files[CsvFileName].rows) = 2

RenderFileNames == {HtmlFileName, CsvFileName, JsonFileName}

\* what a render of the file writes when the clock shows t, whatever was
\* rendered before
Rendered(name, t) ==
    CASE name = HtmlFileName ->
            TextFile(HtmlContent(call.data.license, call.data.consumption,
                                 call.data.metrics, call.tls_verified, call.zerto_version,
                                 call.tool_version, TimeAt(t)))
      [] name = CsvFileName ->
            CsvFile(CsvRows(call.data.license, call.data.consumption, call.data.metrics,
                            TimeAt(t)))
      [] name = JsonFileName ->
            JsonDump(JsonReport(call.data.license, call.data.consumption,
                                call.data.metrics, call.data.history, call.tls_verified,
                                call.zerto_version, call.tool_version, TimeAt(t)), 2)

\* every file is as the directory held it at first or as its own render
\* wrote it, and the render that returned last wrote the file it names
C18_ContentOfOwnRender ==
    /\ \A n \in DOMAIN files :
          \/ files[n] = StaleContent
          \/ n \in RenderFileNames /\ \E t \in 0..clock : files[n] = Rendered(n, t)
    /\ pc = "done" =>
          \E n \in RenderFileNames :
             /\ ret = Return(OutputPath(call.output_dir, n))
             /\ n \in DOMAIN files /\ files[n] = Rendered(n, clock)

\* a render writes one file, the one whose path it returns, and leaves
\* every other file of the directory as it was
C18_OneFileWritten ==
    \E n \in RenderFileNames :
       /\ ret' = Return(OutputPath(call.output_dir, n))
       /\ DOMAIN files' = DOMAIN files \cup {n}
       /\ \A m \in DOMAIN files \ {n} : files'[m] = files[m]
       /\ files'[n] = Rendered(n, clock')

C19_WithinZeroToHundred ==
    (Returned("calculate_utilization_pct")
        /\ call.protected_vms >= 0 /\ call.entitled_vms >= 0) =>
        (ret >= 0 /\ ret <= 10000)

\* what the code keeps: the result is never negative, and above 100 exactly
\* when protected_vms exceeds a positive entitled_vms
C19_AboveHundredWhenOverused ==
    (Returned("calculate_utilization_pct")
        /\ call.protected_vms >= 0 /\ call.entitled_vms >= 0) =>
        /\ ret >= 0
        /\ ret > 10000 <=> (call.entitled_vms > 0 /\ call.protected_vms > call.entitled_vms)

====
